---- MODULE Spec2Model ----
(***************************************************************************)
(* Model of src/main.py: the PingWorker heartbeat loop (send with bounded  *)
(* retry and exponential backoff, then the interval countdown), its        *)
(* cooperative cancellation, and the MainWindow controller that owns the   *)
(* single worker reference.                                                *)
(*                                                                         *)
(* The worker thread advances one statement group at a time (pc), so that  *)
(* a stop request from the GUI thread can fall between any two reads of    *)
(* the stop event.  The finished signal crosses threads through Qt's       *)
(* queued connection and is modelled as a pending flag that on_finished    *)
(* consumes.  The status and timer labels are display only and are left    *)
(* out; the events that feed them are recorded per cycle.  closeEvent ends *)
(* the process and is not part of the model.                               *)
(***************************************************************************)
EXTENDS Integers, Sequences, FiniteSets, TLC

\* ---------------------------------------------------------------- config
INTERVAL == 300
MAX_RETRIES == 3
INITIAL_RETRY_DELAY == 2

\* ---------------------------------------------------------------- bounds
\* number of PingWorker objects the controller may construct in one run
MaxEngines == 2

\* line 62 shortens at 300 characters; the limit is scaled down here
DisplayLimit == 3

\* longest response body tried
MaxBody == DisplayLimit + 2

Engines == 1..MaxEngines
None == 0

\* texts the user may have typed into identifier_edit
Texts == { <<>>, <<" ", " ">>, <<"w">>, <<" ", "w", " ">> }

\* characters of a response body
Chars == {"a", "."}

\* body_str values: every string over Chars of length 0..MaxBody
Bodies == UNION { [1..n -> Chars] : n \in 0..MaxBody }

\* outcomes of one requests.post call as run() classifies them
Outcomes == {"Success", "Rejected", "TransportError"}

VARIABLES
    \* MainWindow
    worker,           \* self.worker: None or the live PingWorker
    start_btn,        \* start_btn.isEnabled()
    stop_btn,         \* stop_btn.isEnabled()
    identifier_edit,  \* identifier_edit.isEnabled()
    created,          \* number of PingWorker objects constructed so far
    \* PingWorker, one entry per constructed object
    identifier,       \* self.identifier
    stop_event,       \* self._stop_event.is_set()
    pc,               \* position of run()
    success,          \* local: success
    attempt,          \* local: attempt
    delay,            \* local: delay
    waited,           \* local: waited
    remaining,        \* local: remaining
    finished_pending, \* finished_signal emitted, slot not yet run
    \* observations of the emitted events
    statuses,         \* status_signal emissions of the current cycle
    calls,            \* requests.post calls of the current cycle
    results,          \* outcomes of the requests.post calls of the current cycle
    bwaits,           \* backoff waits done since the latest call returned
    ticks,            \* countdown_signal emissions of the current interval phase
    last_tick,        \* value of the latest countdown_signal emission
    finished_count,   \* finished_signal emissions of this run
    cancel_at,        \* pc of run() when the stop event was first set
    after_stop,       \* waits, ticks and calls done after the stop event was set
    \* the shortening of a response body, lines 56-62
    body_str,         \* local: body_str
    display_body,     \* local: display_body
    fmt_pc            \* "idle", or "body" before and "shown" after line 62

ctl_vars == <<worker, start_btn, stop_btn, identifier_edit, created>>
eng_vars == <<identifier, stop_event, pc, success, attempt, delay, waited,
              remaining, finished_pending>>
obs_vars == <<statuses, calls, results, bwaits, ticks, last_tick, finished_count, cancel_at, after_stop>>
fmt_vars == <<body_str, display_body, fmt_pc>>
vars == <<ctl_vars, eng_vars, obs_vars, fmt_vars>>

\* ---------------------------------------------------------------- helpers
RECURSIVE lstrip(_)
lstrip(s) == IF s # <<>> /\ Head(s) = " " THEN lstrip(Tail(s)) ELSE s

RECURSIVE rstrip(_)
rstrip(s) == IF s # <<>> /\ s[Len(s)] = " " THEN rstrip(SubSeq(s, 1, Len(s) - 1)) ELSE s

\* str.strip()
strip_none(s) == s

strip(s) == rstrip(lstrip(s))

\* lines 77-79: delay = INITIAL_RETRY_DELAY * (2 ** (attempt - 1)), at most 30
BackoffDelay_linear(n) ==
    LET d == INITIAL_RETRY_DELAY * n
    IN  IF d > 30 THEN 30 ELSE d

BackoffDelay(n) ==
    LET d == INITIAL_RETRY_DELAY * (2 ^ (n - 1))
    IN  IF d > 30 THEN 30 ELSE d

\* line 62: (body_str[:300] + "...") if len(body_str) > 300 else body_str
DisplayBody_ge(b) ==
    IF Len(b) >= DisplayLimit
    THEN SubSeq(b, 1, IF Len(b) < DisplayLimit THEN Len(b) ELSE DisplayLimit)
            \o <<".", ".", ".">>
    ELSE b

DisplayBody(b) ==
    IF Len(b) > DisplayLimit
    THEN SubSeq(b, 1, IF Len(b) < DisplayLimit THEN Len(b) ELSE DisplayLimit)
            \o <<".", ".", ".">>
    ELSE b

\* line 53 raises into the except clause of line 73
Raises_non2xx(o) == o # "Success"

Raises(o) == o = "TransportError"

NoStop == [waits |-> 0, ticks |-> 0, calls |-> 0]

\* lines 64, 68, 75, 87: the status texts; line 75 carries the attempt number
Status_zero_based(kind, n) == [kind |-> kind, attempt |-> n - 1]

Status(kind, n) == [kind |-> kind, attempt |-> n]

Running(e) == pc[e] \notin {"none", "done"}

\* line 44: while not self._stop_event.is_set()
WhileContinues_forever(e) == TRUE

WhileContinues_once(e) == ~stop_event[e] /\ attempt[e] = 0

WhileContinues_success(e) == ~stop_event[e] /\ (attempt[e] = 0 \/ success[e])

WhileContinues(e) == ~stop_event[e]

\* line 48: if self._stop_event.is_set(): break
ForBreaks_never(e) == FALSE

ForBreaks(e) == stop_event[e]

\* line 47: range(1, MAX_RETRIES + 1) has a value after the current one
ForHasNext_more(e) == attempt[e] <= MAX_RETRIES

ForHasNext(e) == attempt[e] < MAX_RETRIES

\* line 82: while waited < delay and not self._stop_event.is_set()
BackoffContinues_sleep(e) == waited[e] < delay[e]

BackoffContinues(e) == waited[e] < delay[e] /\ ~stop_event[e]

\* line 86: if not success
AllFailed_last(e) == attempt[e] = MAX_RETRIES

AllFailed_inverted(e) == success[e]

AllFailed(e) == ~success[e]

\* line 92: while remaining > 0 and not self._stop_event.is_set()
CountdownContinues_zero(e) == remaining[e] >= 0 /\ ~stop_event[e]

CountdownContinues(e) == remaining[e] > 0 /\ ~stop_event[e]

\* line 168: if self.worker is not None
HoldsWorker_isRunning == worker # None /\ Running(worker)

HoldsWorker == worker # None

\* ---------------------------------------------------------------- Init
InitCore ==
    /\ worker = None
    /\ start_btn = TRUE
    /\ stop_btn = FALSE
    /\ identifier_edit = TRUE
    /\ created = 0
    /\ identifier = [e \in Engines |-> <<>>]
    /\ stop_event = [e \in Engines |-> FALSE]
    /\ pc = [e \in Engines |-> "none"]
    /\ success = [e \in Engines |-> FALSE]
    /\ attempt = [e \in Engines |-> 0]
    /\ delay = [e \in Engines |-> 0]
    /\ waited = [e \in Engines |-> 0]
    /\ remaining = [e \in Engines |-> 0]
    /\ finished_pending = [e \in Engines |-> FALSE]
    /\ statuses = [e \in Engines |-> <<>>]
    /\ calls = [e \in Engines |-> 0]
    /\ results = [e \in Engines |-> <<>>]
    /\ bwaits = [e \in Engines |-> 0]
    /\ ticks = [e \in Engines |-> 0]
    /\ last_tick = [e \in Engines |-> 0]
    /\ finished_count = [e \in Engines |-> 0]
    /\ cancel_at = [e \in Engines |-> "unset"]
    /\ after_stop = [e \in Engines |-> NoStop]

Init ==
    /\ InitCore
    /\ body_str = <<>>
    /\ display_body = <<>>
    /\ fmt_pc = "idle"

\* ---------------------------------------------------------------- PingWorker.run
\* line 44: while not self._stop_event.is_set(); on exit lines 99-100
run_while(e) ==
    /\ pc[e] = "while"
    /\ IF WhileContinues(e)
       THEN /\ pc' = [pc EXCEPT ![e] = "for"]
            /\ success' = [success EXCEPT ![e] = FALSE]
            /\ attempt' = [attempt EXCEPT ![e] = 1]
            \* a new cycle starts
            /\ statuses' = [statuses EXCEPT ![e] = <<>>]
            /\ calls' = [calls EXCEPT ![e] = 0]
            /\ results' = [results EXCEPT ![e] = <<>>]
            /\ bwaits' = [bwaits EXCEPT ![e] = 0]
            /\ ticks' = [ticks EXCEPT ![e] = 0]
            /\ last_tick' = [last_tick EXCEPT ![e] = 0]
            /\ UNCHANGED <<finished_pending, finished_count>>
       ELSE /\ pc' = [pc EXCEPT ![e] = "done"]
            /\ finished_pending' = [finished_pending EXCEPT ![e] = TRUE]
            /\ finished_count' = [finished_count EXCEPT ![e] = @ + 1]
            /\ UNCHANGED <<success, attempt, statuses, calls, results, bwaits, ticks,
                           last_tick>>
    /\ UNCHANGED <<fmt_vars, ctl_vars, identifier, stop_event, delay, waited, remaining, cancel_at,
                   after_stop>>

\* lines 48-49: if self._stop_event.is_set(): break
run_for(e) ==
    /\ pc[e] = "for"
    /\ pc' = [pc EXCEPT ![e] = IF ForBreaks(e) THEN "after_for" ELSE "send"]
    /\ UNCHANGED <<fmt_vars, ctl_vars, identifier, stop_event, success, attempt, delay, waited,
                   remaining, finished_pending, obs_vars>>

\* lines 50-53: the request is issued
run_send(e) ==
    /\ pc[e] = "send"
    /\ pc' = [pc EXCEPT ![e] = "post"]
    /\ calls' = [calls EXCEPT ![e] = @ + 1]
    /\ after_stop' = [after_stop EXCEPT ![e].calls = IF stop_event[e] THEN @ + 1 ELSE @]
    /\ UNCHANGED <<fmt_vars, ctl_vars, identifier, stop_event, success, attempt, delay, waited,
                   remaining, finished_pending, statuses, results, bwaits, ticks,
                   last_tick, finished_count, cancel_at>>

\* lines 53-81: requests.post returns or raises; the outcome is classified
run_post(e, o) ==
    /\ pc[e] = "post"
    /\ results' = [results EXCEPT ![e] = Append(@, o)]
    /\ bwaits' = [bwaits EXCEPT ![e] = 0]
    /\ IF Raises(o)
       THEN \* lines 73-81
            /\ statuses' = [statuses EXCEPT ![e] = Append(@, Status("error", attempt[e]))]
            /\ delay' = [delay EXCEPT ![e] = BackoffDelay(attempt[e])]
            /\ waited' = [waited EXCEPT ![e] = 0]
            /\ pc' = [pc EXCEPT ![e] = "backoff"]
            /\ UNCHANGED success
       ELSE \* lines 54-72
            /\ statuses' = [statuses EXCEPT ![e] =
                   Append(@, Status(IF o = "Success" THEN "success" ELSE "rejected",
                                    attempt[e]))]
            /\ success' = [success EXCEPT ![e] = TRUE]
            /\ pc' = [pc EXCEPT ![e] = "after_for"]
            /\ UNCHANGED <<delay, waited>>
    /\ UNCHANGED <<fmt_vars, ctl_vars, identifier, stop_event, attempt, remaining, finished_pending,
                   calls, ticks, last_tick, finished_count, cancel_at, after_stop>>

\* line 82: while waited < delay and not self._stop_event.is_set();
\* on exit the for loop of line 47 takes its next value or ends
run_backoff(e) ==
    /\ pc[e] = "backoff"
    /\ IF BackoffContinues(e)
       THEN /\ pc' = [pc EXCEPT ![e] = "backoff_wait"]
            /\ UNCHANGED attempt
       ELSE IF ForHasNext(e)
            THEN /\ attempt' = [attempt EXCEPT ![e] = @ + 1]
                 /\ pc' = [pc EXCEPT ![e] = "for"]
            ELSE /\ pc' = [pc EXCEPT ![e] = "after_for"]
                 /\ UNCHANGED attempt
    /\ UNCHANGED <<fmt_vars, ctl_vars, identifier, stop_event, success, delay, waited, remaining,
                   finished_pending, obs_vars>>

\* lines 83-84: self._stop_event.wait(1); waited += 1
run_backoff_wait(e) ==
    /\ pc[e] = "backoff_wait"
    /\ waited' = [waited EXCEPT ![e] = @ + 1]
    /\ pc' = [pc EXCEPT ![e] = "backoff"]
    /\ bwaits' = [bwaits EXCEPT ![e] = @ + 1]
    /\ after_stop' = [after_stop EXCEPT ![e].waits = IF stop_event[e] THEN @ + 1 ELSE @]
    /\ UNCHANGED <<fmt_vars, ctl_vars, identifier, stop_event, success, attempt, delay, remaining,
                   finished_pending, statuses, calls, results, ticks, last_tick,
                   finished_count, cancel_at>>

\* lines 86-91: if not success: emit total failure; remaining = INTERVAL
run_after_for(e) ==
    /\ pc[e] = "after_for"
    /\ statuses' = [statuses EXCEPT ![e] =
            IF AllFailed(e) THEN Append(@, Status("total", 0)) ELSE @]
    /\ remaining' = [remaining EXCEPT ![e] = INTERVAL]
    /\ pc' = [pc EXCEPT ![e] = "countdown"]
    /\ UNCHANGED <<fmt_vars, ctl_vars, identifier, stop_event, success, attempt, delay, waited,
                   finished_pending, calls, results, bwaits, ticks, last_tick,
                   finished_count, cancel_at, after_stop>>

\* line 92: while remaining > 0 and not self._stop_event.is_set()
run_countdown(e) ==
    /\ pc[e] = "countdown"
    /\ pc' = [pc EXCEPT ![e] =
            IF CountdownContinues(e) THEN "cd_emit" ELSE "while"]
    /\ UNCHANGED <<fmt_vars, ctl_vars, identifier, stop_event, success, attempt, delay, waited,
                   remaining, finished_pending, obs_vars>>

\* line 94: self.countdown_signal.emit(remaining)
run_cd_emit(e) ==
    /\ pc[e] = "cd_emit"
    /\ ticks' = [ticks EXCEPT ![e] = @ + 1]
    /\ last_tick' = [last_tick EXCEPT ![e] = remaining[e]]
    /\ after_stop' = [after_stop EXCEPT ![e].ticks = IF stop_event[e] THEN @ + 1 ELSE @]
    /\ pc' = [pc EXCEPT ![e] = "cd_wait"]
    /\ UNCHANGED <<fmt_vars, ctl_vars, identifier, stop_event, success, attempt, delay, waited,
                   remaining, finished_pending, statuses, calls, results, bwaits,
                   finished_count, cancel_at>>

\* lines 96-97: self._stop_event.wait(1); remaining -= 1
run_cd_wait(e) ==
    /\ pc[e] = "cd_wait"
    /\ remaining' = [remaining EXCEPT ![e] = @ - 1]
    /\ after_stop' = [after_stop EXCEPT ![e].waits = IF stop_event[e] THEN @ + 1 ELSE @]
    /\ pc' = [pc EXCEPT ![e] = "countdown"]
    /\ UNCHANGED <<fmt_vars, ctl_vars, identifier, stop_event, success, attempt, delay, waited,
                   finished_pending, statuses, calls, results, bwaits, ticks, last_tick,
                   finished_count, cancel_at>>

\* one step of the worker thread
run(e) ==
    \/ run_while(e)
    \/ run_for(e)
    \/ run_send(e)
    \/ \E o \in Outcomes : run_post(e, o)
    \/ run_backoff(e)
    \/ run_backoff_wait(e)
    \/ run_after_for(e)
    \/ run_countdown(e)
    \/ run_cd_emit(e)
    \/ run_cd_wait(e)

\* ---------------------------------------------------------------- MainWindow
\* lines 163-181
on_start(text) ==
    LET id == strip(text)
        e  == created + 1
    IN  IF id = <<>>
        THEN \* lines 165-167: only the status label changes
             UNCHANGED vars
        ELSE IF HoldsWorker
        THEN \* lines 168-170: only the status label changes
             UNCHANGED vars
        ELSE /\ created < MaxEngines
             /\ created' = e
             /\ worker' = e
             /\ identifier' = [identifier EXCEPT ![e] = id]
             /\ pc' = [pc EXCEPT ![e] = "while"]
             /\ start_btn' = FALSE
             /\ stop_btn' = TRUE
             /\ identifier_edit' = FALSE
             /\ UNCHANGED <<stop_event, success, attempt, delay, waited, remaining,
                            finished_pending, obs_vars, fmt_vars>>

\* lines 102-103: PingWorker.stop, self._stop_event.set()
stop_toggle(e) ==
    /\ stop_event' = [stop_event EXCEPT ![e] = ~@]
    /\ cancel_at' = [cancel_at EXCEPT ![e] = IF stop_event[e] THEN @ ELSE pc[e]]

stop(e) ==
    /\ stop_event' = [stop_event EXCEPT ![e] = TRUE]
    /\ cancel_at' = [cancel_at EXCEPT ![e] = IF stop_event[e] THEN @ ELSE pc[e]]

\* lines 184-188
on_stop_keeps_button ==
    IF worker # None
    THEN /\ stop(worker)
         /\ UNCHANGED <<fmt_vars, ctl_vars, identifier, pc, success, attempt, delay,
                        waited, remaining, finished_pending, statuses, calls, results,
                        bwaits, ticks, last_tick, finished_count, after_stop>>
    ELSE UNCHANGED vars

on_stop ==
    IF worker # None
    THEN /\ stop(worker)
         /\ stop_btn' = FALSE
         /\ UNCHANGED <<fmt_vars, worker, start_btn, identifier_edit, created,
                        identifier, pc, success, attempt, delay, waited, remaining,
                        finished_pending, statuses, calls, results, bwaits, ticks,
                        last_tick, finished_count, after_stop>>
    ELSE UNCHANGED vars

\* lines 202-209, run by the GUI thread for a queued finished_signal
on_finished(e) ==
    /\ finished_pending[e]
    /\ finished_pending' = [finished_pending EXCEPT ![e] = FALSE]
    /\ worker' = None
    /\ start_btn' = TRUE
    /\ stop_btn' = FALSE
    /\ identifier_edit' = TRUE
    \* the PingWorker object and the frame of run() are released with the reference
    /\ identifier' = [identifier EXCEPT ![e] = <<>>]
    /\ success' = [success EXCEPT ![e] = FALSE]
    /\ attempt' = [attempt EXCEPT ![e] = 0]
    /\ delay' = [delay EXCEPT ![e] = 0]
    /\ waited' = [waited EXCEPT ![e] = 0]
    /\ remaining' = [remaining EXCEPT ![e] = 0]
    /\ statuses' = [statuses EXCEPT ![e] = <<>>]
    /\ calls' = [calls EXCEPT ![e] = 0]
    /\ results' = [results EXCEPT ![e] = <<>>]
    /\ bwaits' = [bwaits EXCEPT ![e] = 0]
    /\ ticks' = [ticks EXCEPT ![e] = 0]
    /\ last_tick' = [last_tick EXCEPT ![e] = 0]
    /\ cancel_at' = [cancel_at EXCEPT ![e] = "unset"]
    /\ after_stop' = [after_stop EXCEPT ![e] = NoStop]
    /\ UNCHANGED <<created, stop_event, pc, finished_count, fmt_vars>>

\* ---------------------------------------------------------------- specification
Next ==
    \/ \E text \in Texts : on_start(text)
    \/ on_stop
    \/ \E e \in Engines : on_finished(e)
    \/ \E e \in Engines : run(e)

Spec == Init /\ [][Next]_vars

\* the worker thread is scheduled and every call and wait returns; the GUI
\* event loop delivers every queued finished signal
FairSpec ==
    /\ Spec
    /\ \A e \in Engines : WF_vars(run(e))
    /\ \A e \in Engines : WF_vars(on_finished(e))

\* ---------------------------------------------------------------- display body
\* a response body arrives
DisplayInit ==
    /\ InitCore
    /\ body_str \in Bodies
    /\ display_body = <<>>
    /\ fmt_pc = "body"

\* line 62
shorten ==
    /\ fmt_pc = "body"
    /\ display_body' = DisplayBody(body_str)
    /\ fmt_pc' = "shown"
    /\ UNCHANGED <<body_str, ctl_vars, eng_vars, obs_vars>>

DisplayNext == shorten

DisplaySpec == DisplayInit /\ [][DisplayNext]_vars

TypeOK ==
    /\ worker \in {None} \cup Engines
    /\ created \in 0..MaxEngines
    /\ \A e \in Engines :
        /\ attempt[e] \in 0..MAX_RETRIES
        /\ remaining[e] \in 0..INTERVAL
        /\ waited[e] \in 0..30

\* ---------------------------------------------------------------- properties
TE == "TransportError"

CountdownPcs == {"countdown", "cd_emit", "cd_wait"}
BackoffPcs == {"backoff", "backoff_wait"}
WaitPcs == {"backoff_wait", "cd_wait"}

Kinds(e) == [i \in 1..Len(statuses[e]) |-> statuses[e][i].kind]

CountKind(e, k) == Cardinality({i \in 1..Len(statuses[e]) : statuses[e][i].kind = k})

\* the per-attempt failure statuses of attempts 1..n
Errors(n) == [i \in 1..n |-> Status("error", i)]

\* C1: at most one engine runs at any time and a running engine is the one
\* the controller holds; while the controller holds an engine reference no
\* step (an on_start in particular) constructs a PingWorker, and the
\* reference changes only by on_finished releasing it.
C1_SingleInstance ==
    /\ [](/\ Cardinality({e \in Engines : Running(e)}) <= 1
          /\ \A e \in Engines : Running(e) => worker = e)
    /\ [][worker # None =>
            /\ created' = created
            /\ \A e \in Engines \ {worker} : pc'[e] = pc[e]
            /\ worker' = worker \/ (worker' = None /\ finished_pending[worker])]_vars

\* the held engine was stopped and has emitted finished_signal, on_finished
\* has not run yet, and a further PingWorker could still be constructed
C1_Witness ==
    /\ worker # None
    /\ pc[worker] = "done"
    /\ finished_pending[worker]
    /\ ~stop_btn
    /\ created < MaxEngines

\* C2: when the call of attempt k returns Success, the cycle has exactly one
\* success status, emitted last after the failures of attempts 1..k-1, no
\* call after the k-th, and no total-failure status.
C2_SuccessStopsRetry ==
    \A e \in Engines : \A k \in 1..Len(results[e]) :
        results[e][k] = "Success" =>
            /\ k = Len(results[e])
            /\ calls[e] = k
            /\ statuses[e] = Append(Errors(k - 1), Status("success", k))
            /\ CountKind(e, "success") = 1
            /\ CountKind(e, "total") = 0

\* a cycle that succeeded on its third attempt and has counted down to its end
C2_Witness ==
    \E e \in Engines :
        /\ results[e] = <<TE, TE, "Success">>
        /\ pc[e] = "countdown"
        /\ remaining[e] = 0

\* C3: when all three calls of a cycle fail, the statuses of the cycle are the
\* failures of attempts 1, 2, 3 and then, once the retry loop is left, exactly
\* one total-failure status; no success or rejected status is emitted.
C3_AllFail ==
    \A e \in Engines :
        results[e] = <<TE, TE, TE>> =>
            /\ calls[e] = MAX_RETRIES
            /\ statuses[e] = IF pc[e] \in BackoffPcs \cup {"after_for"}
                             THEN Errors(3)
                             ELSE Append(Errors(3), Status("total", 0))
            /\ CountKind(e, "success") = 0
            /\ CountKind(e, "rejected") = 0

\* three failed attempts, never cancelled, countdown under way
C3_Witness ==
    \E e \in Engines :
        /\ results[e] = <<TE, TE, TE>>
        /\ ~stop_event[e]
        /\ pc[e] = "cd_wait"
        /\ ticks[e] = 2

\* C4: a Rejected outcome on attempt k is the last call of the cycle: one
\* rejected status is emitted, success is set, no backoff wait follows and no
\* total-failure status is emitted; every call before the last one of a cycle
\* ended in TransportError.
C4_RejectedHandled ==
    \A e \in Engines :
        /\ \A k \in 1..Len(results[e]) :
              results[e][k] = "Rejected" =>
                  /\ k = Len(results[e])
                  /\ calls[e] = k
                  /\ statuses[e] = Append(Errors(k - 1), Status("rejected", k))
                  /\ success[e]
                  /\ bwaits[e] = 0
                  /\ pc[e] \notin BackoffPcs
                  /\ CountKind(e, "total") = 0
        /\ \A k \in 1..(Len(results[e]) - 1) : results[e][k] = TE

\* a cycle whose second attempt was rejected, counting down without cancellation
C4_Witness ==
    \E e \in Engines :
        /\ results[e] = <<TE, "Rejected">>
        /\ ~stop_event[e]
        /\ pc[e] = "cd_wait"

\* C5: when the stop event is set while run() is in a one-second wait (line 83
\* or line 96), run() completes at most one wait afterwards, emits no
\* countdown tick, issues no request, and reaches the end of run(), where
\* finished_signal has been emitted.
C5_StopInWait ==
    /\ [](\A e \in Engines :
            cancel_at[e] \in WaitPcs =>
                /\ after_stop[e].waits <= 1
                /\ after_stop[e].ticks = 0
                /\ after_stop[e].calls = 0
                /\ pc[e] \notin {"send", "post", "cd_emit"})
    /\ \A e \in Engines :
            (cancel_at[e] \in WaitPcs) ~> (pc[e] = "done" /\ finished_count[e] = 1)

\* stopped inside a backoff wait; that wait completed and run() has returned
C5_Witness ==
    \E e \in Engines :
        /\ cancel_at[e] = "backoff_wait"
        /\ after_stop[e].waits = 1
        /\ pc[e] = "done"
        /\ finished_pending[e]

\* C6: finished_signal is emitted at most once per run, only with the stop
\* event set, exactly when run() has returned, and nothing is emitted or
\* called after it; run() never returns while the stop event is unset,
\* whatever the calls returned.
C6_FinishedOnce ==
    /\ [](\A e \in Engines :
            /\ finished_count[e] <= 1
            /\ (finished_count[e] = 1) <=> (pc[e] = "done")
            /\ pc[e] = "done" => stop_event[e])
    /\ [][\A e \in Engines :
            /\ finished_count'[e] # finished_count[e] => stop_event[e]
            /\ finished_count[e] = 1 =>
                  /\ Len(statuses'[e]) <= Len(statuses[e])
                  /\ ticks'[e] <= ticks[e]
                  /\ calls'[e] <= calls[e]
                  /\ pc'[e] = "done"]_vars

\* run() returned after a cycle of three failed attempts
C6_Witness ==
    \E e \in Engines :
        /\ pc[e] = "done"
        /\ finished_pending[e]
        /\ results[e] = <<TE, TE, TE>>
        /\ cancel_at[e] = "countdown"

\* on_start with a non-blank identifier constructs and starts a worker
StartsNew ==
    \E text \in Texts :
        /\ strip(text) # <<>>
        /\ on_start(text)
        /\ worker' = created + 1
        /\ pc'[created + 1] = "while"

\* C7: once the stop event of a running engine is set, run() eventually emits
\* finished_signal, on_finished eventually releases the reference, and in that
\* state an on_start with a non-blank identifier starts a new engine.
C7_StopLiveness ==
    \A e \in Engines :
        (Running(e) /\ stop_event[e]) ~>
            (/\ finished_count[e] = 1
             /\ ~finished_pending[e]
             /\ worker = None
             /\ created < MaxEngines => ENABLED StartsNew)

\* a second engine runs after the first was stopped and released
C7_Witness ==
    /\ created = 2
    /\ pc[1] = "done"
    /\ ~finished_pending[1]
    /\ worker = 2
    /\ pc[2] = "post"

\* C8: the countdown ticks of one interval phase are INTERVAL, INTERVAL-1, ...
\* in steps of one, each in 1..INTERVAL, and a phase that ends with the stop
\* event unset has emitted all of them down to 1.
C8_Countdown ==
    /\ [](\A e \in Engines :
            /\ ticks[e] > 0 => last_tick[e] = INTERVAL - ticks[e] + 1
            /\ ticks[e] > 0 => last_tick[e] \in 1..INTERVAL
            /\ ticks[e] = 0 => last_tick[e] = 0)
    /\ [][\A e \in Engines :
            /\ ticks'[e] > ticks[e] =>
                  /\ ticks'[e] = ticks[e] + 1
                  /\ last_tick'[e] = IF ticks[e] = 0 THEN INTERVAL ELSE last_tick[e] - 1
            /\ (pc[e] = "countdown" /\ pc'[e] = "while" /\ ~stop_event[e]) =>
                  /\ ticks[e] = INTERVAL
                  /\ last_tick[e] = 1]_vars

\* a whole interval phase was counted down without cancellation
C8_Witness ==
    \E e \in Engines :
        /\ pc[e] = "while"
        /\ ~stop_event[e]
        /\ ticks[e] = INTERVAL
        /\ last_tick[e] = 1

\* delay after a failure on attempt n, as the specification states it
SpecDelay(n) == CASE n = 1 -> 2 [] n = 2 -> 4 [] n = 3 -> 8

\* C9: after a TransportError on attempt n the computed delay is 2, 4, 8 for
\* n = 1, 2, 3, a backoff never does more one-second waits than that, and a
\* backoff left with the stop event unset has done exactly that many.
C9_Backoff ==
    \A e \in Engines :
        (results[e] # <<>> /\ results[e][Len(results[e])] = TE) =>
            LET n == Len(results[e])
            IN  /\ delay[e] = SpecDelay(n)
                /\ bwaits[e] <= SpecDelay(n)
                /\ bwaits[e] = waited[e]
                /\ (pc[e] \notin BackoffPcs /\ ~stop_event[e]) => bwaits[e] = SpecDelay(n)

\* the backoff after the second failed attempt was waited out in full
C9_Witness ==
    \E e \in Engines :
        /\ results[e] = <<TE, TE>>
        /\ pc[e] = "send"
        /\ bwaits[e] = 4
        /\ ~stop_event[e]

\* C10: (as claimed) no backoff wait is done after the third failed attempt:
\* the total-failure status follows it directly.
C10_NoBackoffAfterLast ==
    \A e \in Engines :
        (results[e] = <<TE, TE, TE>> /\ pc[e] \notin BackoffPcs) => bwaits[e] = 0

\* C11: every cycle, whatever its calls returned, goes on to the countdown
\* with remaining = INTERVAL; a countdown left with the stop event unset has
\* emitted all INTERVAL ticks and is followed by a new cycle whose attempt
\* counter restarts at 1; while the stop event is unset run() does not
\* return, and it starts a new cycle again and again.
C11_LoopRepeats ==
    /\ [][\A e \in Engines :
            /\ (pc[e] = "after_for" /\ pc'[e] # "after_for") =>
                  /\ pc'[e] = "countdown"
                  /\ remaining'[e] = INTERVAL
            /\ (pc[e] = "countdown" /\ pc'[e] = "while" /\ ~stop_event[e]) =>
                  /\ remaining[e] = 0
                  /\ ticks[e] = INTERVAL
            /\ (pc[e] = "while" /\ pc'[e] # "while" /\ ~stop_event[e]) =>
                  /\ pc'[e] = "for"
                  /\ attempt'[e] = 1
                  /\ calls'[e] = 0
                  /\ results'[e] = <<>>]_vars
    /\ \A e \in Engines :
          []<>(\/ pc[e] = "none"
               \/ stop_event[e]
               \/ (pc[e] = "for" /\ attempt[e] = 1 /\ calls[e] = 0))

\* a new cycle has started after a cycle of three failed attempts (delay and
\* waited still hold the last backoff) and a full countdown
C11_Witness ==
    \E e \in Engines :
        /\ pc[e] = "for"
        /\ attempt[e] = 1
        /\ calls[e] = 0
        /\ delay[e] = 8
        /\ waited[e] = 8
        /\ remaining[e] = 0
        /\ ~stop_event[e]

\* a text of white space only
Blank(t) == \A i \in 1..Len(t) : t[i] = " "

\* C12: on_start with a blank text changes nothing (no worker is constructed,
\* the reference and the buttons stay as they are), in every reachable state;
\* every constructed worker has a non-blank identifier, so no request is
\* issued with a blank one.
C12_BlankRejected ==
    /\ [](/\ \A t \in Texts :
                Blank(t) => /\ ENABLED on_start(t)
                            /\ ~ENABLED (on_start(t) /\ vars' # vars)
          /\ \A e \in Engines :
                Running(e) => /\ identifier[e] # <<>>
                              /\ ~Blank(identifier[e]))
    /\ [][created' # created =>
            /\ created' = created + 1
            /\ ~Blank(identifier'[created'])
            /\ worker = None]_vars

\* no worker is held after one was released: a non-blank on_start would
\* construct a worker here, a blank one does not; the released worker has
\* issued requests
C12_Witness ==
    /\ worker = None
    /\ start_btn
    /\ created = 1
    /\ pc[1] = "done"
    /\ ENABLED StartsNew
    /\ \E t \in Texts : Blank(t) /\ Len(t) > 0 /\ ENABLED on_start(t)

\* PingWorker.stop called on engine e from any thread, nothing else changing
StopCall(e) ==
    /\ stop(e)
    /\ UNCHANGED <<fmt_vars, ctl_vars, identifier, pc, success, attempt, delay, waited, remaining,
                   finished_pending, statuses, calls, results, bwaits, ticks, last_tick,
                   finished_count, after_stop>>

\* C13: once the stop event of an engine is set no step clears it, and a
\* further call of stop on that engine, at whatever point run() is, leaves
\* every variable as the first call left it; on_stop repeated on the held
\* engine changes nothing either.
C13_StopIdempotent ==
    /\ [][\A e \in Engines : stop_event[e] => stop_event'[e]]_vars
    /\ [](\A e \in Engines :
            stop_event[e] =>
                /\ ENABLED StopCall(e)
                /\ ~ENABLED (StopCall(e) /\ vars' # vars)
                /\ worker = e => ~ENABLED (on_stop /\ vars' # vars))

\* the stop event was set while a request was in flight and run() has not
\* read it yet: a second stop can still arrive
C13_Witness ==
    \E e \in Engines :
        /\ worker = e
        /\ stop_event[e]
        /\ cancel_at[e] = "post"
        /\ pc[e] = "post"
        /\ ~stop_btn

\* C14: a body of at most DisplayLimit characters is shown as it is; a longer
\* one is shown as its first DisplayLimit characters followed by three dots.
C14_DisplayBody ==
    fmt_pc = "shown" =>
        IF Len(body_str) <= DisplayLimit
        THEN display_body = body_str
        ELSE /\ Len(display_body) = DisplayLimit + 3
             /\ \A i \in 1..DisplayLimit : display_body[i] = body_str[i]
             /\ \A i \in (DisplayLimit + 1)..(DisplayLimit + 3) : display_body[i] = "."

\* a body one character over the limit was shortened
C14_Witness ==
    /\ fmt_pc = "shown"
    /\ Len(body_str) = DisplayLimit + 1
    /\ body_str[DisplayLimit + 1] = "a"
    /\ Len(display_body) = DisplayLimit + 3

\* C15: (as claimed) a cycle has a total-failure status only if its three
\* calls were made and all ended in TransportError; a cycle left because the
\* stop event was set has none.
C15_TotalOnlyAfterAll ==
    \A e \in Engines :
        CountKind(e, "total") > 0 =>
            /\ calls[e] = MAX_RETRIES
            /\ results[e] = <<TE, TE, TE>>

\* C16: within a cycle the statuses come before the first countdown tick and
\* none is emitted once a tick was; the i-th status is the one of attempt i,
\* failures first and a success or rejected status only last among them; the
\* total-failure status, if any, is the last status of the cycle.
C16_EventOrder ==
    /\ [](\A e \in Engines :
            /\ \A i \in 1..Len(statuses[e]) :
                  /\ statuses[e][i].kind = "total" => i = Len(statuses[e])
                  /\ statuses[e][i].kind # "total" =>
                        /\ statuses[e][i].attempt = i
                        /\ i <= MAX_RETRIES
                  /\ statuses[e][i].kind \in {"success", "rejected"} =>
                        i = Len(statuses[e])
            /\ ticks[e] > 0 => pc[e] \in CountdownPcs \cup {"while", "done"})
    /\ [][\A e \in Engines :
            /\ Len(statuses'[e]) > Len(statuses[e]) =>
                  /\ ticks[e] = 0
                  /\ ticks'[e] = 0
                  /\ Len(statuses'[e]) = Len(statuses[e]) + 1
                  /\ SubSeq(statuses'[e], 1, Len(statuses[e])) = statuses[e]
            /\ ticks'[e] > ticks[e] => statuses'[e] = statuses[e]]_vars

\* three failures and the total-failure status, then ticks
C16_Witness ==
    \E e \in Engines :
        /\ Len(statuses[e]) = 4
        /\ Kinds(e) = <<"error", "error", "error", "total">>
        /\ ticks[e] = 3
        /\ pc[e] = "cd_wait"

\* the status that run() emits for outcome o of attempt n
KindOf(o) == CASE o = "Success" -> "success"
               [] o = "Rejected" -> "rejected"
               [] o = "TransportError" -> "error"

\* C17: when the stop event is set while a request is in flight, the request
\* still returns and its outcome gets its status; afterwards run() issues no
\* request, does no backoff or countdown wait, emits no tick, and returns
\* with finished_signal emitted.
C17_StopInFlight ==
    /\ [](\A e \in Engines :
            cancel_at[e] = "post" =>
                /\ after_stop[e].calls = 0
                /\ after_stop[e].waits = 0
                /\ after_stop[e].ticks = 0
                /\ ticks[e] = 0
                /\ pc[e] \in {"post", "backoff", "for", "after_for", "countdown",
                              "while", "done"}
                /\ pc[e] # "post" =>
                      /\ Len(results[e]) = calls[e]
                      /\ Len(statuses[e]) >= calls[e]
                      /\ statuses[e][calls[e]].kind = KindOf(results[e][calls[e]])
                      /\ statuses[e][calls[e]].attempt = calls[e])
    /\ \A e \in Engines :
            (cancel_at[e] = "post") ~> (pc[e] = "done" /\ finished_count[e] = 1)

\* stopped during the second request, which then failed; run() has returned
C17_Witness ==
    \E e \in Engines :
        /\ cancel_at[e] = "post"
        /\ results[e] = <<TE, TE>>
        /\ Len(statuses[e]) >= 2
        /\ statuses[e][2].kind = "error"
        /\ pc[e] = "done"
        /\ finished_pending[e]

\* C18: wherever run() is inside a cycle the attempt counter is in
\* 1..MAX_RETRIES (it is unbound, 0 here, only before the first cycle); a
\* cycle makes at most MAX_RETRIES calls, never more than the attempt counter
\* says; a backoff has a delay in 1..30, the one computed for the current
\* attempt, and never waits longer than it; remaining is in 0..INTERVAL.
C18_RetryBudget ==
    \A e \in Engines :
        /\ attempt[e] \in 0..MAX_RETRIES
        /\ pc[e] \notin {"none", "while", "done"} => attempt[e] \in 1..MAX_RETRIES
        /\ calls[e] \in 0..MAX_RETRIES
        /\ calls[e] <= attempt[e]
        /\ Len(results[e]) <= calls[e]
        /\ pc[e] \in BackoffPcs =>
              /\ delay[e] = BackoffDelay(attempt[e])
              /\ delay[e] \in 1..30
              /\ waited[e] \in 0..delay[e]
              /\ pc[e] = "backoff_wait" => waited[e] < delay[e]
        /\ waited[e] <= delay[e]
        /\ remaining[e] \in 0..INTERVAL

\* the last backoff of a cycle waited out in full after the third call
C18_Witness ==
    \E e \in Engines :
        /\ pc[e] = "backoff"
        /\ attempt[e] = MAX_RETRIES
        /\ calls[e] = MAX_RETRIES
        /\ waited[e] = 8
        /\ delay[e] = 8

\* state of the controller: no worker held, a worker held, or a worker held
\* whose stop was requested
CtlState ==
    IF worker = None THEN "Idle"
    ELSE IF stop_event[worker] THEN "Stopping" ELSE "Running"

\* C19: the start button is enabled exactly when no worker is held; the stop
\* button is enabled only while a worker is held whose stop was not requested;
\* on_stop without a worker changes nothing; the controller moves only from
\* Idle to Running (on_start), Running to Stopping (on_stop) and Stopping to
\* Idle (on_finished).
C19_Affordances ==
    /\ [](/\ start_btn <=> worker = None
          /\ stop_btn => (worker # None /\ ~stop_event[worker])
          /\ worker = None => /\ ENABLED on_stop
                              /\ ~ENABLED (on_stop /\ vars' # vars))
    /\ [][\/ CtlState' = CtlState /\ worker' = worker
          \/ CtlState = "Idle" /\ CtlState' = "Running"
          \/ CtlState = "Running" /\ CtlState' = "Stopping" /\ worker' = worker
          \/ CtlState = "Stopping" /\ CtlState' = "Idle"]_vars

\* the second worker is stopping: the controller has gone round once and is
\* in Stopping again, both buttons disabled
C19_Witness ==
    /\ created = 2
    /\ worker = 2
    /\ CtlState = "Stopping"
    /\ Running(2)
    /\ ~start_btn
    /\ ~stop_btn
====
